---------------------------- MODULE Spec2Model ----------------------------
(***************************************************************************)
(* A model of the Monkey interpreter: the Pratt parser                     *)
(* (monkey/parser/parser.go), the tree-walking evaluator (package eval)    *)
(* and its environments (package object).                                  *)
(*                                                                         *)
(* The parser is modelled on token streams: the lexer is an external       *)
(* collaborator that hands out the tokens of the input one by one and EOF  *)
(* for ever once the input is exhausted.                                   *)
(***************************************************************************)
EXTENDS Integers, Sequences, FiniteSets, TLC

VARIABLES
    \* ---- parser (type Parser, parser.go 11-21) and its caller's view ----
    input,        \* the token stream the lexer was built on
    curToken,     \* Parser.curToken
    peekToken,    \* Parser.peekToken
    lexRest,      \* Parser.l: the tokens the lexer has not handed out yet
    errors,       \* Parser.errors
    statements,   \* program.Statements of the ParseProgram call in progress
    ppc,          \* where ParseProgram is: "loop", "spin" or "done"
    pass,         \* 1 for the parse of the input, 2 for the parse of program.String()
    \* ---- evaluator: a session of Eval calls on one global Environment ----
    envs,         \* the heap of object.Environment values; envs[1] is the global one
    ints,         \* the heap of object.Integer values
    root,         \* the node of the last Eval call
    evaluated,    \* what the last Eval call returned
    log,          \* the record of the last Eval call
    nEvals        \* the number of Eval calls so far

pvars == <<input, curToken, peekToken, lexRest, errors, statements, ppc, pass>>
evars == <<envs, ints, root, evaluated, log, nEvals>>
vars == <<pvars, evars>>

-----------------------------------------------------------------------------
(* Tokens (package token): a kind and the literal text.                    *)

Tok(type, lit) == [Type |-> type, Literal |-> lit]

T_EOF == Tok("EOF", "")
T_LET == Tok("LET", "let")
T_RETURN == Tok("RETURN", "return")
T_ASSIGN == Tok("ASSIGN", "=")
T_SEMICOLON == Tok("SEMICOLON", ";")
T_COMMA == Tok("COMMA", ",")
T_LPAREN == Tok("LPAREN", "(")
T_RPAREN == Tok("RPAREN", ")")
T_LBRACE == Tok("LBRACE", "{")
T_RBRACE == Tok("RBRACE", "}")
T_PLUS == Tok("PLUS", "+")
T_MINUS == Tok("MINUS", "-")
T_ASTERISK == Tok("ASTERISK", "*")
T_SLASH == Tok("SLASH", "/")
T_BANG == Tok("BANG", "!")
T_LT == Tok("LT", "<")
T_GT == Tok("GT", ">")
T_EQ == Tok("EQ", "==")
T_NOT_EQ == Tok("NOT_EQ", "!=")
T_FUNCTION == Tok("FUNCTION", "fn")
T_IF == Tok("IF", "if")
T_ELSE == Tok("ELSE", "else")
T_TRUE == Tok("TRUE", "true")
T_FALSE == Tok("FALSE", "false")
T_IDENT(name) == Tok("IDENT", name)
T_INT(lit) == Tok("INT", lit)

\* strconv.ParseInt(lit, 10, 64) on the digit strings the model's inputs use:
\* the number, or no entry (err != nil) for a literal beyond int64.
Overflowing == "9223372036854775808"
ParseInt == [lit \in {"0", "1", "2", "3", "4", "5", "10"} |->
                CASE lit = "0" -> 0 [] lit = "1" -> 1 [] lit = "2" -> 2
                  [] lit = "3" -> 3 [] lit = "4" -> 4 [] lit = "5" -> 5 [] lit = "10" -> 10]

-----------------------------------------------------------------------------
(* AST nodes (package ast), as records tagged by kind.                     *)

NilNode == [kind |-> "nil"]                 \* a nil ast.Expression / ast.Node
NilLet == [kind |-> "nil *LetStatement"]    \* a nil pointer inside a non-nil ast.Statement
\* Token is the kind of the token the identifier was built from.
Identifier(tok, name) == [kind |-> "Identifier", Token |-> tok, Value |-> name]
Ident(name) == Identifier("IDENT", name)
IntegerLiteral(n) == [kind |-> "IntegerLiteral", IntValue |-> n]
BooleanLit(b) == [kind |-> "Boolean", BoolValue |-> b]
PrefixExpression(op, right) == [kind |-> "PrefixExpression", Operator |-> op, Right |-> right]
InfixExpression(left, op, right) ==
    [kind |-> "InfixExpression", Left |-> left, Operator |-> op, Right |-> right]
IfExpression(cond, cons, alt) ==
    [kind |-> "IfExpression", Condition |-> cond, Consequence |-> cons, Alternative |-> alt]
FunctionLiteral(params, body) ==
    [kind |-> "FunctionLiteral", Parameters |-> params, Body |-> body]
CallExpression(fn, args) == [kind |-> "CallExpression", Function |-> fn, Arguments |-> args]
BlockStatement(stmts) == [kind |-> "BlockStatement", Statements |-> stmts]
ExpressionStatement(e) == [kind |-> "ExpressionStatement", Expression |-> e]
\* parseLetStatement and parseReturnStatement never assign Value / ReturnValue:
\* a statement built by the parser carries NilNode there.
LetStatement(name, value) == [kind |-> "LetStatement", Name |-> name, Value |-> value]
ReturnStatement(value) == [kind |-> "ReturnStatement", ReturnValue |-> value]
Program(stmts) == [kind |-> "Program", Statements |-> stmts]

-----------------------------------------------------------------------------
(* The parser.  A parser state ps is the record of the Parser's fields;    *)
(* div is set when a loop of the parser is entered in a state its body     *)
(* leaves unchanged (the call then never returns).                         *)

LOWEST == 1
EQUALS == 2
LESSGREATER == 3
SUM == 4
PRODUCT == 5
PREFIX == 6
CALL == 7

precedences ==
    [t \in {"EQ", "NOT_EQ", "LT", "GT", "PLUS", "MINUS", "SLASH", "ASTERISK", "LPAREN"} |->
        CASE t \in {"EQ", "NOT_EQ"} -> EQUALS
          [] t \in {"LT", "GT"} -> LESSGREATER
          [] t \in {"PLUS", "MINUS"} -> SUM
          [] t \in {"SLASH", "ASTERISK"} -> PRODUCT
          [] t = "LPAREN" -> CALL]

PrefixKinds == {"IDENT", "INT", "BANG", "MINUS", "TRUE", "FALSE", "LPAREN", "IF", "FUNCTION"}
InfixKinds == {"PLUS", "MINUS", "ASTERISK", "SLASH", "GT", "LT", "EQ", "NOT_EQ", "LPAREN"}

\* lexer.NextToken: the next token of the input, EOF once it is exhausted.
NextToken(rest) == IF rest = <<>> THEN [tok |-> T_EOF, rest |-> <<>>]
                   ELSE [tok |-> Head(rest), rest |-> Tail(rest)]

nextToken(ps) ==
    LET n == NextToken(ps.rest)
    IN  [ps EXCEPT !.cur = ps.peek, !.peek = n.tok, !.rest = n.rest]

New(toks) ==
    nextToken(nextToken([cur |-> T_EOF, peek |-> T_EOF, rest |-> toks,
                         errors |-> <<>>, div |-> FALSE]))

curTokenIs(ps, t) == ps.cur.Type = t
peekTokenIs(ps, t) == ps.peek.Type = t

peekError(ps, t) ==
    [ps EXCEPT !.errors = Append(@, <<"Expected next token to be ", t, ". Got ",
                                      ps.peek.Type, " instead">>)]

noPrefixParseFnError(ps, t) ==
    [ps EXCEPT !.errors = Append(@, <<"no prefix parse function for ", t, " found">>)]

\* expectPeek: [ok, ps]
expectPeek(ps, t) ==
    IF ~peekTokenIs(ps, t) THEN [ok |-> FALSE, ps |-> peekError(ps, t)]
    ELSE [ok |-> TRUE, ps |-> nextToken(ps)]

curPrecedence(ps) ==
    IF ps.cur.Type \in DOMAIN precedences THEN precedences[ps.cur.Type] ELSE LOWEST

peekPrecedence(ps) ==
    IF ps.peek.Type \in DOMAIN precedences THEN precedences[ps.peek.Type] ELSE LOWEST

R(ps, node) == [ps |-> ps, node |-> node]

\* Bind(v, F) is F(v) with v evaluated once: the sequencing of a call's
\* result into the code that follows the call.
Bind(v, F(_)) == CHOOSE y \in {F(x) : x \in {v}} : TRUE

\* for !p.curTokenIs(token.SEMICOLON) { p.nextToken() }
RECURSIVE skipToSemicolon(_)
skipToSemicolon(ps) ==
    IF curTokenIs(ps, "SEMICOLON") THEN ps
    ELSE IF nextToken(ps) = ps THEN [ps EXCEPT !.div = TRUE]
    ELSE skipToSemicolon(nextToken(ps))

parseIdentifier(ps) == R(ps, Identifier(ps.cur.Type, ps.cur.Literal))

parseIntegerLiteral(ps) ==
    IF ps.cur.Literal \notin DOMAIN ParseInt
    THEN R([ps EXCEPT !.errors = Append(@, <<"Could not parse ", ps.cur.Literal,
                                             " as an integer">>)], NilNode)
    ELSE R(ps, IntegerLiteral(ParseInt[ps.cur.Literal]))

parseBoolean(ps) ==
    IF ps.cur.Literal # "true" /\ ps.cur.Literal # "false"
    THEN R([ps EXCEPT !.errors = Append(@, <<"Could not parse ", ps.cur.Literal,
                                             " as a Boolean">>)], NilNode)
    ELSE R(ps, BooleanLit(ps.cur.Literal = "true"))

parseLetStatement(ps) ==
    Bind(expectPeek(ps, "IDENT"), LAMBDA e1 :
        IF ~e1.ok THEN R(e1.ps, NilLet) ELSE
    Bind(expectPeek(e1.ps, "ASSIGN"), LAMBDA e2 :
        IF ~e2.ok THEN R(e2.ps, NilLet) ELSE
        R(skipToSemicolon(e2.ps),
          LetStatement(Identifier(e1.ps.cur.Type, e1.ps.cur.Literal), NilNode))))

parseReturnStatement(ps) == R(skipToSemicolon(ps), ReturnStatement(NilNode))

\* for p.peekTokenIs(token.COMMA) { ... } of parseFunctionParameters
RECURSIVE moreParameters(_, _)
moreParameters(ps, identifiers) ==
    IF peekTokenIs(ps, "COMMA")
    THEN Bind(nextToken(nextToken(ps)), LAMBDA p2 :
             moreParameters(p2, Append(identifiers,
                                       Identifier(p2.cur.Type, p2.cur.Literal))))
    ELSE [ps |-> ps, list |-> identifiers]


RECURSIVE parseExpression(_, _), infixLoop(_, _, _), parseStatement(_),
          parseBlockStatement(_), blockLoop(_, _), moreArguments(_, _)

parsePrefixExpression(ps) ==
    Bind(parseExpression(nextToken(ps), PREFIX), LAMBDA r :
        R(r.ps, PrefixExpression(ps.cur.Literal, r.node)))

\* an infix parse whose right operand takes operators of the same precedence
parseInfixExpressionRightAssoc(ps, left) ==
    Bind(parseExpression(nextToken(ps), curPrecedence(ps) - 1), LAMBDA r :
        R(r.ps, InfixExpression(left, ps.cur.Literal, r.node)))

parseInfixExpression(ps, left) ==
    Bind(parseExpression(nextToken(ps), curPrecedence(ps)), LAMBDA r :
        R(r.ps, InfixExpression(left, ps.cur.Literal, r.node)))

parseGroupedExpression(ps) ==
    Bind(parseExpression(nextToken(ps), LOWEST), LAMBDA r :
    Bind(expectPeek(r.ps, "RPAREN"), LAMBDA e :
        IF ~e.ok THEN R(e.ps, NilNode) ELSE R(e.ps, r.node)))

parseIfExpression(ps) ==
    Bind(expectPeek(ps, "LPAREN"), LAMBDA e1 :
        IF ~e1.ok THEN R(e1.ps, NilNode) ELSE
    Bind(parseExpression(nextToken(e1.ps), LOWEST), LAMBDA c :
    Bind(expectPeek(c.ps, "RPAREN"), LAMBDA e2 :
        IF ~e2.ok THEN R(e2.ps, NilNode) ELSE
    Bind(expectPeek(e2.ps, "LBRACE"), LAMBDA e3 :
        IF ~e3.ok THEN R(e3.ps, NilNode) ELSE
    Bind(parseBlockStatement(e3.ps), LAMBDA cons :
        IF ~peekTokenIs(cons.ps, "ELSE")
        THEN R(cons.ps, IfExpression(c.node, cons.node, NilNode)) ELSE
    Bind(expectPeek(nextToken(cons.ps), "LBRACE"), LAMBDA e4 :
        IF ~e4.ok THEN R(e4.ps, NilNode) ELSE
    Bind(parseBlockStatement(e4.ps), LAMBDA alt :
        R(alt.ps, IfExpression(c.node, cons.node, alt.node)))))))))

\* [ps, list]; a nil slice and an empty one are both <<>>
parseFunctionParameters(ps) ==
    IF peekTokenIs(ps, "RPAREN") THEN [ps |-> nextToken(ps), list |-> <<>>] ELSE
    Bind(nextToken(ps), LAMBDA p1 :
    Bind(moreParameters(p1, <<Identifier(p1.cur.Type, p1.cur.Literal)>>), LAMBDA m :
    Bind(expectPeek(m.ps, "RPAREN"), LAMBDA e :
        IF ~e.ok THEN [ps |-> e.ps, list |-> <<>>] ELSE [ps |-> e.ps, list |-> m.list])))

parseFunctionLiteral(ps) ==
    Bind(expectPeek(ps, "LPAREN"), LAMBDA e1 :
        IF ~e1.ok THEN R(e1.ps, NilNode) ELSE
    Bind(parseFunctionParameters(e1.ps), LAMBDA prm :
    Bind(parseBlockStatement(nextToken(prm.ps)), LAMBDA body :
        R(body.ps, FunctionLiteral(prm.list, body.node)))))

\* for p.peekTokenIs(token.COMMA) { ... } of parseCallArguments
moreArguments(ps, args) ==
    IF peekTokenIs(ps, "COMMA")
    THEN Bind(parseExpression(nextToken(nextToken(ps)), LOWEST), LAMBDA r :
             moreArguments(r.ps, Append(args, r.node)))
    ELSE [ps |-> ps, list |-> args]

parseCallArguments(ps) ==
    IF peekTokenIs(ps, "RPAREN") THEN [ps |-> nextToken(ps), list |-> <<>>] ELSE
    Bind(parseExpression(nextToken(ps), LOWEST), LAMBDA r :
    Bind(moreArguments(r.ps, <<r.node>>), LAMBDA m :
    Bind(expectPeek(m.ps, "RPAREN"), LAMBDA e :
        IF ~e.ok THEN [ps |-> e.ps, list |-> <<>>] ELSE [ps |-> e.ps, list |-> m.list])))

parseCallExpression(ps, function) ==
    Bind(parseCallArguments(ps), LAMBDA a : R(a.ps, CallExpression(function, a.list)))

\* p.prefixParseFns[p.curToken.Type]()
prefixParseFns(ps) ==
    CASE ps.cur.Type = "IDENT" -> parseIdentifier(ps)
      [] ps.cur.Type = "INT" -> parseIntegerLiteral(ps)
      [] ps.cur.Type \in {"BANG", "MINUS"} -> parsePrefixExpression(ps)
      [] ps.cur.Type \in {"TRUE", "FALSE"} -> parseBoolean(ps)
      [] ps.cur.Type = "LPAREN" -> parseGroupedExpression(ps)
      [] ps.cur.Type = "IF" -> parseIfExpression(ps)
      [] ps.cur.Type = "FUNCTION" -> parseFunctionLiteral(ps)

\* p.infixParseFns[p.curToken.Type](left)
infixParseFns(ps, left) ==
    IF ps.cur.Type = "LPAREN" THEN parseCallExpression(ps, left)
    ELSE parseInfixExpression(ps, left)

\* the for loop of parseExpression
infixLoop(ps, leftExp, precedence) ==
    IF ps.peek.Type # "SEMICOLON" /\ precedence < peekPrecedence(ps)
    THEN IF ps.peek.Type \notin InfixKinds THEN R(ps, leftExp)
         ELSE Bind(infixParseFns(nextToken(ps), leftExp), LAMBDA r :
                  infixLoop(r.ps, r.node, precedence))
    ELSE R(ps, leftExp)

parseExpression(ps, precedence) ==
    IF ps.cur.Type \notin PrefixKinds
    THEN R(noPrefixParseFnError(ps, ps.cur.Type), NilNode)
    ELSE Bind(prefixParseFns(ps), LAMBDA l : infixLoop(l.ps, l.node, precedence))

parseExpressionStatement(ps) ==
    Bind(parseExpression(ps, LOWEST), LAMBDA r :
        R(IF peekTokenIs(r.ps, "SEMICOLON") THEN nextToken(r.ps) ELSE r.ps,
          ExpressionStatement(r.node)))

\* The result is an ast.Statement holding a pointer: it is never the nil
\* interface, also when parseLetStatement returned a nil pointer.
parseStatement(ps) ==
    CASE ps.cur.Type = "LET" -> parseLetStatement(ps)
      [] ps.cur.Type = "RETURN" -> parseReturnStatement(ps)
      [] OTHER -> parseExpressionStatement(ps)

\* the for loop of parseBlockStatement
blockLoop(ps, stmts) ==
    IF ~curTokenIs(ps, "EOF") /\ ~curTokenIs(ps, "RBRACE")
    THEN Bind(parseStatement(ps), LAMBDA r :
             blockLoop(nextToken(r.ps), Append(stmts, r.node)))
    ELSE R(ps, BlockStatement(stmts))

parseBlockStatement(ps) == blockLoop(nextToken(ps), <<>>)

-----------------------------------------------------------------------------
(* Objects (package object).  An Integer is a pointer to a cell of the     *)
(* heap ints, since evalNegOperatorExpression writes through it; TRUE,     *)
(* FALSE and NULL are the three shared instances; the other objects are    *)
(* never written after construction.  NilObj is the nil object.Object and  *)
(* Panic the outcome of a call that ends in a run-time panic.              *)

NilObj == [type |-> "nil"]
NULL == [type |-> "NULL"]
TRUE_OBJ == [type |-> "BOOLEAN", b |-> TRUE]
FALSE_OBJ == [type |-> "BOOLEAN", b |-> FALSE]
IntegerRef(addr) == [type |-> "INTEGER", addr |-> addr]
ReturnValue(obj) == [type |-> "RETURN_VALUE", Value |-> obj]
Error(msg) == [type |-> "ERROR", Message |-> msg]
Function(params, body, env) ==
    [type |-> "FUNCTION", Parameters |-> params, Body |-> body, Env |-> env]
Panic(why) == [type |-> "PANIC", why |-> why]

\* obj.Type(); calling it on the nil object is a nil dereference
Type(obj) == obj.type

IsPanic(obj) == obj.type = "PANIC"

newError(msg) == Error(msg)

isError(obj) == IF obj # NilObj THEN Type(obj) = "ERROR" ELSE FALSE

nativeBoolToBooleanObject(val) == IF val THEN TRUE_OBJ ELSE FALSE_OBJ

\* a test that takes everything but FALSE for true
isTruthyButFalse(obj) == obj # FALSE_OBJ

isTruthy(obj) ==
    CASE obj = NULL -> FALSE
      [] obj = TRUE_OBJ -> TRUE
      [] obj = FALSE_OBJ -> FALSE
      [] OTHER -> TRUE

(* Environments (package object): envs is the heap of Environment values,  *)
(* an *Environment is an index into it and 0 the nil pointer.              *)

EmptyStore == [n \in {} |-> NilObj]

NewEnvironment == [store |-> EmptyStore, outer |-> 0]

NewEnclosedEnvironment(out) == [store |-> EmptyStore, outer |-> out]

\* a lookup in the store of e alone
GetLocalOnly(heap, e, name) ==
    IF name \in DOMAIN heap[e].store
    THEN [obj |-> heap[e].store[name], ok |-> TRUE]
    ELSE [obj |-> NilObj, ok |-> FALSE]

\* (obj, ok) of e.Get(name)
RECURSIVE Get(_, _, _)
Get(heap, e, name) ==
    IF name \in DOMAIN heap[e].store
    THEN [obj |-> heap[e].store[name], ok |-> TRUE]
    ELSE IF heap[e].outer # 0 THEN Get(heap, heap[e].outer, name)
    ELSE [obj |-> NilObj, ok |-> FALSE]

\* the heap of environments after e.Set(name, obj)
Set(heap, e, name, obj) ==
    [heap EXCEPT ![e].store = [n \in DOMAIN @ \cup {name} |->
                                  IF n = name THEN obj ELSE @[n]]]

-----------------------------------------------------------------------------
(* The evaluator (package eval).  A world st holds the two heaps, and the  *)
(* record of the evaluation in progress: log, the results the evaluation   *)
(* sites obtained and returned, each tagged with the call (frame) that     *)
(* obtained it, and nf, the number of frames so far.  An evaluation        *)
(* function yields [val, st].                                              *)

V(val, st) == [val |-> val, st |-> st]

\* Run the code F after the call whose outcome is r, unless the call panicked.
Then(r, F(_)) == Bind(r, LAMBDA x : IF IsPanic(x.val) THEN x ELSE F(x))

\* The frame of a call that starts in world st: its number, the kind and
\* the node it evaluates, and its environment.
Frame(st, kind, node, e) == [id |-> st.nf + 1, kind |-> kind, node |-> node, env |-> e]

NewFrame(st) == [st EXCEPT !.nf = @ + 1]

\* record that frame fr obtained r.val from its sub-evaluation at site, or
\* (site "ret") returns r.val, with the two heaps as they are then
Sub(fr, site, idx, r) ==
    IF IsPanic(r.val) THEN r
    ELSE V(r.val, [r.st EXCEPT !.log = Append(@,
             [frame |-> fr.id, kind |-> fr.kind, node |-> fr.node, env |-> fr.env,
              site |-> site, idx |-> idx, val |-> r.val, envs |-> r.st.envs,
              ints |-> r.st.ints])])

Ret(fr, r) == Sub(fr, "ret", 0, r)

NewInteger(n, st) ==
    V(IntegerRef(Len(st.ints) + 1), [st EXCEPT !.ints = Append(@, n)])

\* Go's integer division truncates toward zero
Quot(a, b) ==
    IF (a >= 0) = (b >= 0)
    THEN (IF a >= 0 THEN a ELSE -a) \div (IF b >= 0 THEN b ELSE -b)
    ELSE -((IF a >= 0 THEN a ELSE -a) \div (IF b >= 0 THEN b ELSE -b))

evalIntegerInfixExpression(left, operator, right, st) ==
    LET leftVal == st.ints[left.addr]
        rightVal == st.ints[right.addr]
    IN  CASE operator = "+" -> NewInteger(leftVal + rightVal, st)
          [] operator = "-" -> NewInteger(leftVal - rightVal, st)
          [] operator = "*" -> NewInteger(leftVal * rightVal, st)
          [] operator = "/" -> IF rightVal = 0
                               THEN V(Panic("integer divide by zero"), st)
                               ELSE NewInteger(Quot(leftVal, rightVal), st)
          [] operator = "<" -> V(nativeBoolToBooleanObject(leftVal < rightVal), st)
          [] operator = ">" -> V(nativeBoolToBooleanObject(leftVal > rightVal), st)
          [] operator = "==" -> V(nativeBoolToBooleanObject(leftVal = rightVal), st)
          [] operator = "!=" -> V(nativeBoolToBooleanObject(leftVal # rightVal), st)
          [] OTHER -> V(newError(<<"unknown operator: ", Type(left), " ", operator, " ",
                                   Type(right)>>), st)

evalBooleanInfixExpression(left, operator, right, st) ==
    CASE operator = "==" -> V(nativeBoolToBooleanObject(left = right), st)
      [] operator = "!=" -> V(nativeBoolToBooleanObject(left # right), st)
      [] OTHER -> V(newError(<<"unknown operator: ", Type(left), " ", operator, " ",
                               Type(right)>>), st)

\* A Type() call on a nil operand panics; the cases are tried in order.
evalInfixExpression(left, operator, right, st) ==
    IF left = NilObj THEN V(Panic("nil dereference"), st)
    ELSE IF Type(left) = "INTEGER" /\ right = NilObj THEN V(Panic("nil dereference"), st)
    ELSE IF Type(left) = "INTEGER" /\ Type(right) = "INTEGER"
    THEN evalIntegerInfixExpression(left, operator, right, st)
    ELSE IF Type(left) = "BOOLEAN" /\ right = NilObj THEN V(Panic("nil dereference"), st)
    ELSE IF Type(left) = "BOOLEAN" /\ Type(right) = "BOOLEAN"
    THEN evalBooleanInfixExpression(left, operator, right, st)
    ELSE IF right = NilObj THEN V(Panic("nil dereference"), st)
    ELSE IF Type(left) # Type(right)
    THEN V(newError(<<"type mismatch: ", Type(left), " ", operator, " ", Type(right)>>), st)
    ELSE V(newError(<<"unknown operator: ", Type(left), " ", operator, " ",
                      Type(right)>>), st)

evalBangOperatorExpression(right) ==
    CASE right = TRUE_OBJ -> FALSE_OBJ
      [] right = FALSE_OBJ -> TRUE_OBJ
      [] right = NULL -> TRUE_OBJ
      [] OTHER -> FALSE_OBJ

\* res := right.(*object.Integer); res.Value = -res.Value; return res
evalNegOperatorExpression(right, st) ==
    IF right = NilObj THEN V(Panic("nil dereference"), st)
    ELSE IF Type(right) # "INTEGER"
    THEN V(newError(<<"unknown operator: -", Type(right)>>), st)
    ELSE V(right, [st EXCEPT !.ints[right.addr] = -@])

evalPrefixExpression(operator, right, st) ==
    CASE operator = "!" -> V(evalBangOperatorExpression(right), st)
      [] operator = "-" -> evalNegOperatorExpression(right, st)
      [] OTHER -> V(NULL, st)

evalIdentifier(ident, e, st) ==
    LET fr == Frame(st, "Identifier", ident, e)
        g == Get(st.envs, e, ident.Value)
    IN  IF ~g.ok
        THEN Ret(fr, V(newError(<<"identifier not found: ", ident.Value>>), NewFrame(st)))
        ELSE Ret(fr, V(g.obj, NewFrame(st)))

RECURSIVE Eval(_, _, _), programLoop(_, _, _, _, _), blockLoop2(_, _, _, _, _),
          argumentLoop(_, _, _, _, _, _)

\* a loop that goes on to the next statement after an Error
programLoopPastErrors(fr, i, result, e, st) ==
    IF i > Len(fr.node.Statements) THEN Ret(fr, V(result, st))
    ELSE Then(Sub(fr, "stmt", i, Eval(fr.node.Statements[i], e, st)), LAMBDA r :
             CASE r.val.type = "RETURN_VALUE" -> Ret(fr, V(r.val.Value, r.st))
               [] OTHER -> programLoop(fr, i + 1, r.val, e, r.st))

\* the for loop of evalProgram, at statement i
programLoop(fr, i, result, e, st) ==
    IF i > Len(fr.node.Statements) THEN Ret(fr, V(result, st))
    ELSE Then(Sub(fr, "stmt", i, Eval(fr.node.Statements[i], e, st)), LAMBDA r :
             CASE r.val.type = "RETURN_VALUE" -> Ret(fr, V(r.val.Value, r.st))
               [] r.val.type = "ERROR" -> Ret(fr, r)
               [] OTHER -> programLoop(fr, i + 1, r.val, e, r.st))

evalProgram(prog, e, st) ==
    programLoop(Frame(st, "Program", prog, e), 1, NilObj, e, NewFrame(st))

\* the for loop of evalBlockStatement, at statement i
blockLoop2(fr, i, result, e, st) ==
    IF i > Len(fr.node.Statements) THEN Ret(fr, V(result, st))
    ELSE Then(Sub(fr, "stmt", i, Eval(fr.node.Statements[i], e, st)), LAMBDA r :
             CASE r.val.type = "RETURN_VALUE" -> Ret(fr, r)
               [] r.val.type = "ERROR" -> Ret(fr, r)
               [] OTHER -> blockLoop2(fr, i + 1, r.val, e, r.st))

evalBlockStatement(bs, e, st) ==
    blockLoop2(Frame(st, "Block", bs, e), 1, NilObj, e, NewFrame(st))

evalIfExpression(ie, e, st) ==
    LET fr == Frame(st, "If", ie, e)
    IN  Then(Sub(fr, "cond", 0, Eval(ie.Condition, e, NewFrame(st))), LAMBDA c :
            IF isTruthy(c.val)
            THEN Then(Sub(fr, "consequence", 0, evalBlockStatement(ie.Consequence, e, c.st)),
                      LAMBDA r : Ret(fr, r))
            ELSE IF ie.Alternative # NilNode
            THEN Then(Sub(fr, "alternative", 0, evalBlockStatement(ie.Alternative, e, c.st)),
                      LAMBDA r : Ret(fr, r))
            ELSE Ret(fr, V(NULL, c.st)))

\* the for loop of evalCallExpression, at argument i, and what follows it;
\* ne is the environment of the call
argumentLoop(fr, fn, i, e, ne, st) ==
    IF i > Len(fr.node.Arguments)
    THEN Then(Sub(fr, "body", 0, Eval(fn.Body, ne, st)), LAMBDA r :
             IF r.val.type = "RETURN_VALUE" THEN Ret(fr, V(r.val.Value, r.st))
             ELSE Ret(fr, r))
    ELSE Then(Sub(fr, "arg", i, Eval(fr.node.Arguments[i], e, st)), LAMBDA a :
             IF isError(a.val) THEN Ret(fr, a)
             ELSE argumentLoop(fr, fn, i + 1, e, ne,
                      [a.st EXCEPT !.envs = Set(@, ne, fn.Parameters[i].Value, a.val)]))

\* a call that only rejects too many arguments
evalCallExpressionTooFew(node, e, st) ==
    LET fr == Frame(st, "Call", node, e)
    IN  Then(Sub(fr, "fn", 0, Eval(node.Function, e, NewFrame(st))), LAMBDA fn :
            IF isError(fn.val) THEN Ret(fr, fn)
            ELSE IF fn.val = NilObj THEN V(Panic("nil dereference"), fn.st)
            ELSE IF Type(fn.val) # "FUNCTION"
            THEN Ret(fr, V(newError(<<"not a function: ", Type(fn.val)>>), fn.st))
            ELSE IF Len(node.Arguments) > Len(fn.val.Parameters)
            THEN Ret(fr, V(newError(<<"Expected ", ToString(Len(fn.val.Parameters)),
                                      " arguments. Got=",
                                      ToString(Len(node.Arguments))>>), fn.st))
            ELSE argumentLoop(fr, fn.val, 1, e, Len(fn.st.envs) + 1,
                     [fn.st EXCEPT !.envs = Append(@, NewEnclosedEnvironment(fn.val.Env))]))

\* a call whose environment encloses the caller's
evalCallExpressionDynamic(node, e, st) ==
    LET fr == Frame(st, "Call", node, e)
    IN  Then(Sub(fr, "fn", 0, Eval(node.Function, e, NewFrame(st))), LAMBDA fn :
            IF isError(fn.val) THEN Ret(fr, fn)
            ELSE IF fn.val = NilObj THEN V(Panic("nil dereference"), fn.st)
            ELSE IF Type(fn.val) # "FUNCTION"
            THEN Ret(fr, V(newError(<<"not a function: ", Type(fn.val)>>), fn.st))
            ELSE IF Len(node.Arguments) # Len(fn.val.Parameters)
            THEN Ret(fr, V(newError(<<"Expected ", ToString(Len(fn.val.Parameters)),
                                      " arguments. Got=",
                                      ToString(Len(node.Arguments))>>), fn.st))
            ELSE argumentLoop(fr, fn.val, 1, e, Len(fn.st.envs) + 1,
                     [fn.st EXCEPT !.envs = Append(@, NewEnclosedEnvironment(e))]))

evalCallExpression(node, e, st) ==
    LET fr == Frame(st, "Call", node, e)
    IN  Then(Sub(fr, "fn", 0, Eval(node.Function, e, NewFrame(st))), LAMBDA fn :
            IF isError(fn.val) THEN Ret(fr, fn)
            ELSE IF fn.val = NilObj THEN V(Panic("nil dereference"), fn.st)
            ELSE IF Type(fn.val) # "FUNCTION"
            THEN Ret(fr, V(newError(<<"not a function: ", Type(fn.val)>>), fn.st))
            ELSE IF Len(node.Arguments) # Len(fn.val.Parameters)
            THEN Ret(fr, V(newError(<<"Expected ", ToString(Len(fn.val.Parameters)),
                                      " arguments. Got=",
                                      ToString(Len(node.Arguments))>>), fn.st))
            ELSE argumentLoop(fr, fn.val, 1, e, Len(fn.st.envs) + 1,
                     [fn.st EXCEPT !.envs = Append(@, NewEnclosedEnvironment(fn.val.Env))]))

evalReturnStatement(node, e, st) ==
    LET fr == Frame(st, "Return", node, e)
    IN  Then(Sub(fr, "value", 0, Eval(node.ReturnValue, e, NewFrame(st))), LAMBDA r :
            IF isError(r.val) THEN Ret(fr, r)
            ELSE Ret(fr, V(ReturnValue(r.val), r.st)))

evalLetStatement(node, e, st) ==
    LET fr == Frame(st, "Let", node, e)
    IN  Then(Sub(fr, "value", 0,
                 Eval(node.Value, e, Sub(fr, "enter", 0, V(NilObj, NewFrame(st))).st)),
             LAMBDA r :
                IF isError(r.val) THEN Ret(fr, r)
                ELSE Ret(fr, V(NilObj, [r.st EXCEPT
                                           !.envs = Set(@, e, node.Name.Value, r.val)])))

evalFunctionLiteral(node, e, st) ==
    Ret(Frame(st, "FunctionLiteral", node, e),
        V(Function(node.Parameters, node.Body, e), NewFrame(st)))

evalPrefix(node, e, st) ==
    LET fr == Frame(st, "Prefix", node, e)
    IN  Then(Sub(fr, "right", 0, Eval(node.Right, e, NewFrame(st))), LAMBDA r :
            IF isError(r.val) THEN Ret(fr, r)
            ELSE Ret(fr, evalPrefixExpression(node.Operator, r.val, r.st)))

evalInfix(node, e, st) ==
    LET fr == Frame(st, "Infix", node, e)
    IN  Then(Sub(fr, "left", 0, Eval(node.Left, e, NewFrame(st))), LAMBDA l :
            IF isError(l.val) THEN Ret(fr, l)
            ELSE Then(Sub(fr, "right", 0, Eval(node.Right, e, l.st)), LAMBDA r :
                     IF isError(r.val) THEN Ret(fr, r)
                     ELSE Ret(fr, evalInfixExpression(l.val, node.Operator, r.val, r.st))))

\* The type switch of Eval; a node of no listed type (the nil node) gives nil.
Eval(node, e, st) ==
    CASE node.kind = "Program" -> evalProgram(node, e, st)
      [] node.kind = "ExpressionStatement" -> Eval(node.Expression, e, st)
      [] node.kind = "ReturnStatement" -> evalReturnStatement(node, e, st)
      [] node.kind = "BlockStatement" -> evalBlockStatement(node, e, st)
      [] node.kind = "LetStatement" -> evalLetStatement(node, e, st)
      [] node.kind = "IntegerLiteral" -> NewInteger(node.IntValue, st)
      [] node.kind = "Boolean" -> V(nativeBoolToBooleanObject(node.BoolValue), st)
      [] node.kind = "FunctionLiteral" -> evalFunctionLiteral(node, e, st)
      [] node.kind = "PrefixExpression" -> evalPrefix(node, e, st)
      [] node.kind = "InfixExpression" -> evalInfix(node, e, st)
      [] node.kind = "IfExpression" -> evalIfExpression(node, e, st)
      [] node.kind = "Identifier" -> evalIdentifier(node, e, st)
      [] node.kind = "CallExpression" -> evalCallExpression(node, e, st)
      [] OTHER -> V(NilObj, st)

-----------------------------------------------------------------------------
(* Parsing as a state machine: New, then ParseProgram one iteration of its *)
(* loop at a time.                                                         *)

MaxToks == 3

Alphabet == {T_LET, T_RETURN, T_IDENT("x"), T_INT("5"), T_ASSIGN, T_SEMICOLON, T_PLUS,
             T_LBRACE}

Programs ==
    { <<T_LET, T_IDENT("x"), T_ASSIGN, T_INT("5"), T_SEMICOLON,
        T_LET, T_IDENT("y"), T_ASSIGN, T_INT("10"), T_SEMICOLON>>,
      <<T_RETURN, T_INT("5"), T_SEMICOLON, T_RETURN, T_INT("10"), T_SEMICOLON>>,
      <<T_LET, T_IDENT("add"), T_ASSIGN, T_FUNCTION, T_LPAREN, T_IDENT("x"), T_COMMA,
        T_IDENT("y"), T_RPAREN, T_LBRACE, T_IDENT("x"), T_PLUS, T_IDENT("y"), T_SEMICOLON,
        T_RBRACE, T_SEMICOLON,
        T_IDENT("add"), T_LPAREN, T_INT("2"), T_COMMA, T_INT("3"), T_RPAREN, T_SEMICOLON>>,
      <<T_LET, T_IDENT("x"), T_ASSIGN, T_IDENT("a"), T_PLUS, T_IDENT("b"), T_ASTERISK,
        T_IDENT("c"), T_SEMICOLON>>,
      <<T_RETURN, T_MINUS, T_IDENT("a"), T_ASTERISK, T_IDENT("b"), T_SEMICOLON>>,
      <<T_LET, T_IDENT("x"), T_ASSIGN, T_INT("5")>>,
      <<T_IDENT("x"), T_SEMICOLON, T_RETURN, T_INT("5")>>,
      <<T_FUNCTION, T_LPAREN, T_RPAREN, T_LBRACE, T_LET, T_IDENT("x"), T_ASSIGN, T_INT("5"),
        T_RBRACE>>,
      <<T_IF, T_LPAREN, T_IDENT("x"), T_LT, T_IDENT("y"), T_RPAREN, T_LBRACE, T_IDENT("x"),
        T_RBRACE, T_ELSE, T_LBRACE, T_IDENT("y"), T_RBRACE>>,
      <<T_LET, T_ASSIGN, T_INT("5"), T_SEMICOLON, T_TRUE, T_EQ, T_BANG, T_FALSE, T_SEMICOLON>>,
      <<T_INT(Overflowing), T_SEMICOLON, T_LPAREN, T_INT("1"), T_SLASH, T_INT("0"), T_RPAREN,
        T_GT, T_INT("2"), T_NOT_EQ, T_TRUE>> }

\* Expressions, as trees: the operands, the trees of one operator over
\* them, and the trees of two levels of operators over the identifier a.
BinaryOps == {"==", "!=", "<", ">", "+", "-", "*", "/"}
UnaryOps == {"!", "-"}

Over(ts) == {PrefixExpression(op, t) : op \in UnaryOps, t \in ts}
            \cup {InfixExpression(l, op, r) : l \in ts, op \in BinaryOps, r \in ts}

Operands == {Ident("a"), IntegerLiteral(5), BooleanLit(TRUE)}
Trees == Operands \cup Over(Operands) \cup Over({Ident("a")} \cup Over({Ident("a")}))

OpToken(op) ==
    CASE op = "==" -> T_EQ [] op = "!=" -> T_NOT_EQ [] op = "<" -> T_LT [] op = ">" -> T_GT
      [] op = "+" -> T_PLUS [] op = "-" -> T_MINUS [] op = "*" -> T_ASTERISK
      [] op = "/" -> T_SLASH [] op = "!" -> T_BANG

\* how tightly a binary operator binds: == != loosest, then < >, + -, * /
Rank(op) ==
    CASE op \in {"==", "!="} -> 1 [] op \in {"<", ">"} -> 2
      [] op \in {"+", "-"} -> 3 [] op \in {"*", "/"} -> 4

Parens(toks, needed) == IF needed THEN <<T_LPAREN>> \o toks \o <<T_RPAREN>> ELSE toks

IsInfix(t) == t.kind = "InfixExpression"

\* The source text of a tree, as tokens, with parentheses only where the
\* tree is not the one precedence and left association give.
RECURSIVE Source(_)
Source(t) ==
    CASE t.kind = "Identifier" -> <<T_IDENT(t.Value)>>
      [] t.kind = "IntegerLiteral" -> <<T_INT(ToString(t.IntValue))>>
      [] t.kind = "Boolean" -> <<IF t.BoolValue THEN T_TRUE ELSE T_FALSE>>
      [] t.kind = "PrefixExpression" ->
            <<OpToken(t.Operator)>> \o Parens(Source(t.Right), IsInfix(t.Right))
      [] t.kind = "InfixExpression" ->
            Parens(Source(t.Left),
                   IsInfix(t.Left) /\ Rank(t.Left.Operator) < Rank(t.Operator))
            \o <<OpToken(t.Operator)>>
            \o Parens(Source(t.Right),
                      IsInfix(t.Right) /\ Rank(t.Right.Operator) <= Rank(t.Operator))

\* String() of an expression node, as the tokens of the text: an operator
\* expression is printed inside parentheses, a call as the function and the
\* arguments, separated by commas, inside parentheses.
RECURSIVE String(_), ArgumentsString(_)
String(t) ==
    CASE t.kind = "Identifier" -> <<T_IDENT(t.Value)>>
      [] t.kind = "IntegerLiteral" -> <<T_INT(ToString(t.IntValue))>>
      [] t.kind = "Boolean" -> <<IF t.BoolValue THEN T_TRUE ELSE T_FALSE>>
      [] t.kind = "PrefixExpression" ->
            <<T_LPAREN, OpToken(t.Operator)>> \o String(t.Right) \o <<T_RPAREN>>
      [] t.kind = "InfixExpression" ->
            <<T_LPAREN>> \o String(t.Left) \o <<OpToken(t.Operator)>>
            \o String(t.Right) \o <<T_RPAREN>>
      [] t.kind = "CallExpression" ->
            String(t.Function) \o <<T_LPAREN>> \o ArgumentsString(t.Arguments)
            \o <<T_RPAREN>>

ArgumentsString(args) ==
    IF args = <<>> THEN <<>>
    ELSE IF Len(args) = 1 THEN String(args[1])
    ELSE String(args[1]) \o <<T_COMMA>> \o ArgumentsString(Tail(args))

\* The expression nodes whose text is a token stream of the parser's
\* prefix and infix handlers for identifiers, literals, operators and calls.
RECURSIVE HasString(_)
HasString(t) ==
    CASE t.kind = "Identifier" -> t.Token = "IDENT"
      [] t.kind \in {"IntegerLiteral", "Boolean"} -> TRUE
      [] t.kind = "PrefixExpression" -> HasString(t.Right)
      [] t.kind = "InfixExpression" -> HasString(t.Left) /\ HasString(t.Right)
      [] t.kind = "CallExpression" ->
            HasString(t.Function) /\ \A i \in 1..Len(t.Arguments) : HasString(t.Arguments[i])
      [] OTHER -> FALSE

\* Program.String(): the statements' String() one after the other, with
\* nothing between them.
RECURSIVE ProgramString(_)
ProgramString(stmts) ==
    IF stmts = <<>> THEN <<>>
    ELSE String(stmts[1].Expression) \o ProgramString(Tail(stmts))

\* The text of a program of expression statements is the token stream
\* ProgramString gives: no statement ends in a word (a name, a number, a
\* keyword) where the next one starts with a word, which the lexer would
\* read as one word.
Lexes(stmts) ==
    /\ \A i \in 1..Len(stmts) :
          stmts[i].kind = "ExpressionStatement" /\ HasString(stmts[i].Expression)
    /\ \A i \in 1..(Len(stmts) - 1) :
          LET a == String(stmts[i].Expression)
              b == String(stmts[i + 1].Expression)
          IN  a[Len(a)].Type = "RPAREN" \/ b[1].Type = "LPAREN"

\* a + b * c + d / e - f
SumOfProducts ==
    <<T_IDENT("a"), T_PLUS, T_IDENT("b"), T_ASTERISK, T_IDENT("c"), T_PLUS, T_IDENT("d"),
      T_SLASH, T_IDENT("e"), T_MINUS, T_IDENT("f")>>

\* -a * b
NegatedFactor == <<T_MINUS, T_IDENT("a"), T_ASTERISK, T_IDENT("b")>>

\* 3 + 4; -5 * 5
TwoStatements ==
    <<T_INT("3"), T_PLUS, T_INT("4"), T_SEMICOLON, T_MINUS, T_INT("5"), T_ASTERISK,
      T_INT("5")>>

\* add(a, b + 1)
CallOfTwo ==
    <<T_IDENT("add"), T_LPAREN, T_IDENT("a"), T_COMMA, T_IDENT("b"), T_PLUS, T_INT("1"),
      T_RPAREN>>

Expressions ==
    {Source(t) : t \in Trees} \cup {String(t) : t \in Trees}
    \cup {SumOfProducts, NegatedFactor, TwoStatements, CallOfTwo}

\* fn ( <the tokens, separated by commas> ) <open> }
FunctionText(params, open) ==
    <<T_FUNCTION, T_LPAREN>>
    \o [i \in 1..(IF params = <<>> THEN 0 ELSE 2 * Len(params) - 1) |->
           IF i % 2 = 1 THEN params[(i + 1) \div 2] ELSE T_COMMA]
    \o <<T_RPAREN, open, T_RBRACE>>

\* Function literals of no, one and two parameters, with names and a number
\* in the parameter positions and with "{" or a name after the ")".
FunctionLiterals ==
    {FunctionText(params, open) :
        params \in UNION {[1..n -> {T_IDENT("x"), T_IDENT("y"), T_INT("5")}] : n \in 0..2},
        open \in {T_LBRACE, T_IDENT("x")}}

\* Statements that fail to parse before a let or a return:
\* "=", "5 +", "(5", "let x 5;", "5 + ;"
BadStatements ==
    { <<T_ASSIGN>>,
      <<T_INT("5"), T_PLUS>>,
      <<T_LPAREN, T_INT("5")>>,
      <<T_LET, T_IDENT("x"), T_INT("5"), T_SEMICOLON>>,
      <<T_INT("5"), T_PLUS, T_SEMICOLON>> }

\* Well-formed statements: "let y = 5;", "return 5;", "let y = 5"
GoodStatements ==
    { <<T_LET, T_IDENT("y"), T_ASSIGN, T_INT("5"), T_SEMICOLON>>,
      <<T_RETURN, T_INT("5"), T_SEMICOLON>>,
      <<T_LET, T_IDENT("y"), T_ASSIGN, T_INT("5")>> }

\* a statement that fails to parse, then a well-formed one
BadThenGood == {bad \o good : bad \in BadStatements, good \in GoodStatements}

ParseInputs == Programs \cup Expressions \cup BadThenGood \cup FunctionLiterals \cup UNION {[1..n -> Alphabet] : n \in 0..MaxToks}

\* the Parser's fields as a parser state
Parser == [cur |-> curToken, peek |-> peekToken, rest |-> lexRest, errors |-> errors,
           div |-> FALSE]

ParseInit ==
    /\ input \in ParseInputs
    /\ LET ps == New(input)
       IN  /\ curToken = ps.cur
           /\ peekToken = ps.peek
           /\ lexRest = ps.rest
           /\ errors = ps.errors
    /\ statements = <<>>
    /\ ppc = "loop"
    /\ pass = 1
    /\ envs = <<NewEnvironment>>
    /\ ints = <<>>
    /\ root = NilNode
    /\ evaluated = NilObj
    /\ log = <<>>
    /\ nEvals = 0

\* One iteration of ParseProgram's loop.  A parseStatement that never
\* returns leaves ParseProgram inside it for ever.
ParseProgramStep ==
    /\ ppc = "loop"
    /\ curToken.Type # "EOF"
    /\ LET r == parseStatement(Parser)
           ps == nextToken(r.ps)
       IN  IF r.ps.div
           THEN /\ ppc' = "spin"
                /\ curToken' = r.ps.cur
                /\ peekToken' = r.ps.peek
                /\ lexRest' = r.ps.rest
                /\ errors' = r.ps.errors
                /\ UNCHANGED statements
           ELSE /\ statements' = Append(statements, r.node)
                /\ curToken' = ps.cur
                /\ peekToken' = ps.peek
                /\ lexRest' = ps.rest
                /\ errors' = ps.errors
                /\ ppc' = "loop"
    /\ UNCHANGED <<input, pass, evars>>

\* ParseProgram's loop ends at EOF and the program is returned.
ParseProgramReturn ==
    /\ ppc = "loop"
    /\ curToken.Type = "EOF"
    /\ ppc' = "done"
    /\ UNCHANGED <<input, curToken, peekToken, lexRest, errors, statements, pass, evars>>

\* One more iteration of the loop that never ends.
ParseProgramSpin ==
    /\ ppc = "spin"
    /\ UNCHANGED vars

\* The program of a parse without errors is printed with String() and a
\* new Parser is made on a lexer of the text.
ParseTheString ==
    /\ ppc = "done"
    /\ pass = 1
    /\ errors = <<>>
    /\ Lexes(statements)
    /\ LET ps == New(ProgramString(statements))
       IN  /\ input' = ProgramString(statements)
           /\ curToken' = ps.cur
           /\ peekToken' = ps.peek
           /\ lexRest' = ps.rest
           /\ errors' = ps.errors
    /\ statements' = <<>>
    /\ ppc' = "loop"
    /\ pass' = 2
    /\ UNCHANGED evars

ParseNext == ParseProgramStep \/ ParseProgramReturn \/ ParseProgramSpin \/ ParseTheString

-----------------------------------------------------------------------------
(* Evaluation as a state machine: a front end that creates one global      *)
(* Environment and calls Eval on it, one program after the other, until a  *)
(* call panics.                                                            *)

MaxEvals == 2

I(n) == IntegerLiteral(n)
ES(e) == ExpressionStatement(e)
Let(name, e) == LetStatement(Ident(name), e)
Block(stmts) == BlockStatement(stmts)
Fn(params, stmts) == FunctionLiteral(params, BlockStatement(stmts))
Call(fn, args) == CallExpression(fn, args)
Inf(l, op, r) == InfixExpression(l, op, r)
IfTrue(stmts) == IfExpression(BooleanLit(TRUE), Block(stmts), NilNode)

TypeMismatchThenLet == Program(<<ES(Inf(I(5), "+", BooleanLit(TRUE))), Let("z", I(1))>>)

\* fn() { if (true) { if (true) { return 10; } return 2; } return 1; }(); let z = 3;
NestedReturnInCall ==
    Program(<<ES(Call(Fn(<<>>, <<ES(IfTrue(<<ES(IfTrue(<<ReturnStatement(I(10))>>)),
                                           ReturnStatement(I(2))>>)),
                               ReturnStatement(I(1))>>), <<>>)),
              Let("z", I(3))>>)

\* if (true) { if (true) { return 10; } return 2; } let z = 3;
NestedReturnAtTop ==
    Program(<<ES(IfTrue(<<ES(IfTrue(<<ReturnStatement(I(10))>>)),
                          ReturnStatement(I(2))>>)),
              Let("z", I(3))>>)

\* fn() { let y = -x; }();
LetNegatedOuter ==
    Program(<<ES(Call(Fn(<<>>, <<Let("y", PrefixExpression("-", Ident("x")))>>), <<>>))>>)

\* fn(x) { x }(1);
ShadowX == Program(<<ES(Call(Fn(<<Ident("x")>>, <<ES(Ident("x"))>>), <<I(1)>>))>>)

\* let newAdder = fn(a) { let k = 1; fn(b) { a + b + k } };
\* let addTwo = newAdder(2); addTwo(3);
ClosureExample ==
    Program(<<Let("newAdder",
                  Fn(<<Ident("a")>>,
                     <<Let("k", I(1)),
                       ES(Fn(<<Ident("b")>>,
                             <<ES(Inf(Inf(Ident("a"), "+", Ident("b")), "+", Ident("k")))>>))>>)),
              Let("addTwo", Call(Ident("newAdder"), <<I(2)>>)),
              ES(Call(Ident("addTwo"), <<I(3)>>))>>)

\* let g = fn() { q }; fn(q) { g() }(1);
FreeNameInCaller ==
    Program(<<Let("g", Fn(<<>>, <<ES(Ident("q"))>>)),
              ES(Call(Fn(<<Ident("q")>>, <<ES(Call(Ident("g"), <<>>))>>), <<I(1)>>))>>)

\* let h = fn(p) { p }; fn(q) { h(q) }(1);
ArgumentInCaller ==
    Program(<<Let("h", Fn(<<Ident("p")>>, <<ES(Ident("p"))>>)),
              ES(Call(Fn(<<Ident("q")>>, <<ES(Call(Ident("h"), <<Ident("q")>>))>>),
                      <<I(1)>>))>>)

\* 1 < 2; 2 * 3 - 7 / 2; true != false; 3 == 3; true + false;
InfixTable ==
    Program(<<ES(Inf(I(1), "<", I(2))),
              ES(Inf(Inf(I(2), "*", I(3)), "-", Inf(I(7), "/", I(2)))),
              ES(Inf(BooleanLit(TRUE), "!=", BooleanLit(FALSE))),
              ES(Inf(I(3), "==", I(3))),
              ES(Inf(BooleanLit(TRUE), "+", BooleanLit(FALSE)))>>)

\* if (false) { 1 }
IfNull == IfExpression(BooleanLit(FALSE), Block(<<ES(I(1))>>), NilNode)

OneElseTwo(cond) == IfExpression(cond, Block(<<ES(I(1))>>), Block(<<ES(I(2))>>))

Not(e) == PrefixExpression("!", e)

\* if (0) {1} else {2}; if (true) {1} else {2}; if (false) {1} else {2};
\* if (if (false) {1}) {1} else {2}; if (fn() {}) {1} else {2};
\* !0; !5; !true; !false; !(if (false) {1}); !fn() {};
TruthTable ==
    Program(<<ES(OneElseTwo(I(0))), ES(OneElseTwo(BooleanLit(TRUE))),
              ES(OneElseTwo(BooleanLit(FALSE))), ES(OneElseTwo(IfNull)),
              ES(OneElseTwo(Fn(<<>>, <<>>))),
              ES(Not(I(0))), ES(Not(I(5))), ES(Not(BooleanLit(TRUE))),
              ES(Not(BooleanLit(FALSE))), ES(Not(IfNull)), ES(Not(Fn(<<>>, <<>>)))>>)

EvalPrograms ==
    { Program(<<Let("x", I(5))>>),
      Program(<<ES(Ident("x"))>>),
      Program(<<ES(PrefixExpression("-", Ident("x")))>>),
      Program(<<Let("y", Ident("x")), ES(PrefixExpression("-", Ident("y"))),
                ES(Ident("x"))>>),
      TypeMismatchThenLet,
      Program(<<ES(IfExpression(Inf(I(1), "+", BooleanLit(TRUE)),
                                Block(<<Let("w", I(1)), ES(I(10))>>),
                                Block(<<ES(I(20))>>)))>>),
      Program(<<ES(Inf(I(1), "/", I(0))), Let("z", I(1))>>),
      Program(<<Let("add", Fn(<<Ident("a"), Ident("b")>>,
                              <<Let("z", I(1)), ES(Inf(Ident("a"), "+", Ident("b")))>>))>>),
      Program(<<ES(Call(Ident("add"), <<I(1)>>))>>),
      Program(<<ES(Call(Ident("add"), <<I(2), I(3)>>))>>),
      Program(<<ES(Call(Ident("add"), <<I(1), I(2), Inf(I(1), "/", I(0))>>))>>),
      NestedReturnInCall,
      NestedReturnAtTop,
      LetNegatedOuter,
      ShadowX,
      TruthTable,
      InfixTable,
      ClosureExample,
      FreeNameInCaller,
      ArgumentInCaller,
      Program(<<ES(Call(Fn(<<Ident("a")>>, <<Let("a", I(2)), ES(Ident("a"))>>), <<I(1)>>))>>),
      Program(<<Let("x", IfTrue(<<ReturnStatement(I(5))>>)), ES(I(7))>>),
      Program(<<ES(Inf(IfTrue(<<ReturnStatement(I(5))>>), "+", I(1)))>>),
      Program(<<ReturnStatement(IfTrue(<<ReturnStatement(I(5))>>))>>),
      Program(<<ES(Call(Fn(<<Ident("a")>>, <<ES(Ident("a")), Let("x", I(2))>>),
                        <<IfTrue(<<ReturnStatement(I(5))>>)>>))>>),
      Program(<<Let("x", BooleanLit(FALSE)), Let("x", Inf(Ident("u"), "+", I(1)))>>),
      \* fn() {}(); if (true) {}
      Program(<<ES(Call(Fn(<<>>, <<>>), <<>>)), ES(IfTrue(<<>>))>>),
      \* fn() {}() + 1
      Program(<<ES(Inf(Call(Fn(<<>>, <<>>), <<>>), "+", I(1)))>>),
      \* -if (true) {}
      Program(<<ES(PrefixExpression("-", IfTrue(<<>>)))>>),
      \* fn() {}()()
      Program(<<ES(Call(Call(Fn(<<>>, <<>>), <<>>), <<>>))>>),
      Program(<<>>) }

EvalInit ==
    /\ input = <<>>
    /\ curToken = T_EOF
    /\ peekToken = T_EOF
    /\ lexRest = <<>>
    /\ errors = <<>>
    /\ statements = <<>>
    /\ ppc = "done"
    /\ pass = 1
    /\ envs = <<NewEnvironment>>
    /\ ints = <<>>
    /\ root = NilNode
    /\ evaluated = NilObj
    /\ log = <<>>
    /\ nEvals = 0

\* evaluated = Eval(node, env) with env the session's global Environment
EvalCall ==
    /\ nEvals < MaxEvals
    /\ ~IsPanic(evaluated)
    /\ \E node \in EvalPrograms :
          \E out \in {Eval(node, 1, [envs |-> envs, ints |-> ints, log |-> <<>>, nf |-> 0])} :
              /\ root' = node
              /\ evaluated' = out.val
              /\ envs' = out.st.envs
              /\ ints' = out.st.ints
              /\ log' = out.st.log
    /\ nEvals' = nEvals + 1
    /\ UNCHANGED pvars

EvalNext == EvalCall

ParseSpec == ParseInit /\ [][ParseNext]_vars

EvalSpec == EvalInit /\ [][EvalNext]_vars


-----------------------------------------------------------------------------
(* Claims about the parser.                                                *)

\* C1: ParseProgram terminates on every finite token stream, also when a
\* let or return statement is followed by no ";" before the end of the
\* input: it is never inside a loop whose body leaves the parser unchanged
\* while the loop's condition holds.
C1_ParseProgramTerminates == ppc # "spin"

\* the tokens of toks from index a to index b
Slice(toks, a, b) == [i \in 1..(b - a + 1) |-> toks[a + i - 1]]

NoSemicolon(toks) == \A i \in 1..Len(toks) : toks[i].Type # "SEMICOLON"

\* parseExpression(LOWEST) on the tokens of an expression followed by ";"
ValueOf(toks) == parseExpression(New(Append(toks, T_SEMICOLON)), LOWEST)

\* toks is one whole expression that parses without an error
IsExpression(toks) ==
    /\ toks # <<>>
    /\ NoSemicolon(toks)
    /\ ValueOf(toks).ps.errors = <<>>
    /\ ValueOf(toks).ps.peek = T_SEMICOLON
    /\ ValueOf(toks).ps.rest = <<>>

LetAdd ==
    LetStatement(Ident("add"),
        FunctionLiteral(<<Ident("x"), Ident("y")>>,
            BlockStatement(<<ExpressionStatement(
                InfixExpression(Ident("x"), "+", Ident("y")))>>)))

CallAdd ==
    ExpressionStatement(CallExpression(Ident("add"),
                                       <<IntegerLiteral(2), IntegerLiteral(3)>>))

\* C2: parsing "let <ident> = <expr>;" yields a LetStatement whose value is
\* the expression parseExpression(LOWEST) yields on <expr>, parsing
\* "return <expr>;" a ReturnStatement holding that expression, and
\* "let add = fn(x, y) { x + y; }; add(2, 3);" parses without errors into the
\* let statement holding the function literal and the call statement.
C2_ValueIsParsedExpression ==
    ppc = "done" =>
        /\ (/\ Len(input) >= 5
            /\ input[1] = T_LET /\ input[2].Type = "IDENT" /\ input[3] = T_ASSIGN
            /\ input[Len(input)] = T_SEMICOLON
            /\ IsExpression(Slice(input, 4, Len(input) - 1)))
           => statements = <<LetStatement(Ident(input[2].Literal),
                                 ValueOf(Slice(input, 4, Len(input) - 1)).node)>>
        /\ (/\ Len(input) >= 3
            /\ input[1] = T_RETURN
            /\ input[Len(input)] = T_SEMICOLON
            /\ IsExpression(Slice(input, 2, Len(input) - 1)))
           => statements = <<ReturnStatement(
                                 ValueOf(Slice(input, 2, Len(input) - 1)).node)>>
        /\ (/\ Len(input) = 23
            /\ input[2] = T_IDENT("add") /\ input[4] = T_FUNCTION)
           => errors = <<>> /\ statements = <<LetAdd, CallAdd>>


-----------------------------------------------------------------------------
(* Claims about the evaluator, read off the record of the last Eval call.  *)

FrameIds == {log[i].frame : i \in 1..Len(log)}

\* what frame f obtained and returned, in order
EventsOf(f) == SelectSeq(log, LAMBDA ev : ev.frame = f)

IntegerOf(obj, heap) == heap[obj.addr]

\* C3: once a sub-evaluation (operand, if-condition, callee, argument, let
\* value, return operand) yields an Error, the enclosing evaluation returns
\* that Error and evaluates nothing more; an if-expression whose condition
\* is an Error evaluates neither branch.
C3_ErrorEndsTheEvaluation ==
    \A f \in FrameIds :
        \A i \in 1..Len(EventsOf(f)) :
            (/\ EventsOf(f)[i].kind \in {"Prefix", "Infix", "If", "Call", "Let", "Return"}
             /\ EventsOf(f)[i].site \notin {"ret", "enter"}
             /\ isError(EventsOf(f)[i].val))
            => /\ Len(EventsOf(f)) = i + 1
               /\ EventsOf(f)[i + 1].site = "ret"
               /\ EventsOf(f)[i + 1].val = EventsOf(f)[i].val

NegX == Program(<<ES(PrefixExpression("-", Ident("x")))>>)

\* C4: with x bound to an Integer v, evaluating -x yields an Integer -v and
\* leaves the object bound to x unchanged: x still holds v afterwards.
C4_NegationLeavesOperand ==
    [][(/\ root' = NegX
        /\ "x" \in DOMAIN envs[1].store
        /\ envs[1].store["x"].type = "INTEGER")
       => /\ evaluated'.type = "INTEGER"
          /\ IntegerOf(evaluated', ints') = -IntegerOf(envs[1].store["x"], ints)
          /\ envs'[1].store["x"] = envs[1].store["x"]
          /\ IntegerOf(envs'[1].store["x"], ints') = IntegerOf(envs[1].store["x"], ints)]_vars

\* C5: Integer / Integer with a right operand 0 yields an Error object; the
\* evaluation never ends in a run-time divide fault.
C5_DivisionByZeroIsAnError ==
    /\ evaluated # Panic("integer divide by zero")
    /\ \A f \in FrameIds :
          (/\ EventsOf(f)[1].kind = "Infix"
           /\ EventsOf(f)[1].node.Operator = "/"
           /\ Len(EventsOf(f)) >= 2
           /\ EventsOf(f)[1].val.type = "INTEGER"
           /\ EventsOf(f)[2].val.type = "INTEGER"
           /\ IntegerOf(EventsOf(f)[2].val, ints) = 0)
          => /\ Len(EventsOf(f)) = 3
             /\ isError(EventsOf(f)[3].val)

\* a call whose callee is a function of n parameters, made with m # n arguments
IsArityCall(ev) ==
    /\ ev.kind = "Call" /\ ev.site = "fn"
    /\ ev.val.type = "FUNCTION"
    /\ Len(ev.node.Arguments) # Len(ev.val.Parameters)

\* Every such call returns at once the Error made of the two given pieces of
\* text and the two counts: no argument and no statement of the body is
\* evaluated, and no environment is created or changed.
ArityMismatch(expected, got) ==
    \A i \in 1..Len(log) :
        IsArityCall(log[i]) =>
            /\ i < Len(log)
            /\ log[i + 1].frame = log[i].frame
            /\ log[i + 1].site = "ret"
            /\ log[i + 1].val = Error(<<expected, ToString(Len(log[i].val.Parameters)),
                                        got, ToString(Len(log[i].node.Arguments))>>)
            /\ log[i + 1].envs = log[i].envs

\* C6: a call of a function of n parameters with m # n arguments returns the
\* Error "expected <n> arguments. got=<m>"; no statement of the body is
\* evaluated and no parameter is bound.
C6_ArityMismatch == ArityMismatch("expected ", " arguments. got=")

\* C6, amended: the same, with the message "Expected <n> arguments. Got=<m>".
C6_ArityMismatchAsWorded == ArityMismatch("Expected ", " arguments. Got=")

C6_Witness ==
    \E i \in 1..Len(log) : IsArityCall(log[i]) /\ i < Len(log) /\ isError(log[i + 1].val)


IsWrapper(obj) == obj.type \in {"RETURN_VALUE", "ERROR"}

\* A Program or Block frame runs its statements in order from the first,
\* returns last, and returns the last statement's value (nil for none)
\* when no statement yields a wrapper.
InOrder(evs) ==
    /\ \A j \in 1..Len(evs) :
        /\ evs[j].site = "stmt" => evs[j].idx = j
        /\ evs[j].site = "ret" => j = Len(evs)
    /\ (evs[Len(evs)].site = "ret"
        /\ (Len(evs) = 1 \/ ~IsWrapper(evs[Len(evs) - 1].val))) =>
          /\ Len(evs) = Len(evs[1].node.Statements) + 1
          /\ evs[Len(evs)].val = IF Len(evs) = 1 THEN NilObj ELSE evs[Len(evs) - 1].val

\* The frame stops at the statement j that yields a wrapper: it returns
\* next, with the environments the statement left.
StopsAt(evs, j) ==
    /\ Len(evs) = j + 1
    /\ evs[j + 1].site = "ret"
    /\ evs[j + 1].envs = evs[j].envs

TypeMismatchExample ==
    root = TypeMismatchThenLet =>
        /\ evaluated = Error(<<"type mismatch: ", "INTEGER", " ", "+", " ", "BOOLEAN">>)
        /\ \A i \in 1..Len(log) : log[i].kind # "Let"

\* C7 (as stated): a Program or Block evaluates its statements in order and
\* stops at the first one whose result is a ReturnValue or an Error: no
\* later statement is evaluated (no later let binds), and the result is
\* that wrapper; otherwise the result is the last statement's.  "5 + true;"
\* followed by a let yields the Error "type mismatch: INTEGER + BOOLEAN"
\* and the let is not evaluated.
C7_ResultIsTheWrapper ==
    /\ \A f \in FrameIds :
        EventsOf(f)[1].kind \in {"Program", "Block"} =>
            /\ InOrder(EventsOf(f))
            /\ \A j \in 1..Len(EventsOf(f)) :
                (EventsOf(f)[j].site = "stmt" /\ IsWrapper(EventsOf(f)[j].val)) =>
                    /\ StopsAt(EventsOf(f), j)
                    /\ EventsOf(f)[j + 1].val = EventsOf(f)[j].val
    /\ TypeMismatchExample

\* C7 (amended): as above, but the result of a Program that stops at a
\* ReturnValue is the value the ReturnValue wraps; a Block's result is the
\* wrapper, and so is a Program's when the wrapper is an Error.
C7_StatementsInOrderUntilWrapper ==
    /\ \A f \in FrameIds :
        EventsOf(f)[1].kind \in {"Program", "Block"} =>
            /\ InOrder(EventsOf(f))
            /\ \A j \in 1..Len(EventsOf(f)) :
                (EventsOf(f)[j].site = "stmt" /\ IsWrapper(EventsOf(f)[j].val)) =>
                    /\ StopsAt(EventsOf(f), j)
                    /\ EventsOf(f)[j + 1].val =
                          IF EventsOf(f)[j].kind = "Program"
                             /\ EventsOf(f)[j].val.type = "RETURN_VALUE"
                          THEN EventsOf(f)[j].val.Value
                          ELSE EventsOf(f)[j].val
    /\ TypeMismatchExample

\* a Program of two statements stopped at its first, a ReturnValue, and
\* a Block inside it stopped at a ReturnValue too
C7_Witness ==
    /\ root = NestedReturnAtTop
    /\ \E f \in FrameIds :
          /\ EventsOf(f)[1].kind = "Program"
          /\ Len(EventsOf(f)) = 2
          /\ Len(EventsOf(f)[1].node.Statements) = 2
          /\ EventsOf(f)[1].val.type = "RETURN_VALUE"
          /\ EventsOf(f)[2].val.type = "INTEGER"
    /\ \E f \in FrameIds :
          /\ EventsOf(f)[1].kind = "Block"
          /\ Len(EventsOf(f)) = 2
          /\ Len(EventsOf(f)[1].node.Statements) = 2
          /\ EventsOf(f)[1].val.type = "RETURN_VALUE"

\* the sites through which a ReturnValue travels to where it is unwrapped
CarrierSites ==
    {<<"Block", "stmt">>, <<"If", "consequence">>, <<"If", "alternative">>,
     <<"Call", "body">>, <<"Program", "stmt">>}

\* C8: a ReturnValue made inside nested blocks stays wrapped through every
\* enclosing block and if-expression and is unwrapped once, by the nearest
\* enclosing call or by the Program: whatever receives it is a block, an
\* if-expression, a call's body or the Program; the call yields the wrapped
\* value and its caller's remaining statements run; a Program ends with
\* that value.
C8_ReturnUnwrappedOnce ==
    /\ \A i \in 1..Len(log) :
        (log[i].val.type = "RETURN_VALUE" /\ log[i].site # "ret") =>
            /\ <<log[i].kind, log[i].site>> \in CarrierSites
            /\ i < Len(log)
            /\ log[i + 1].frame = log[i].frame
            /\ log[i + 1].site = "ret"
            /\ log[i + 1].val = IF log[i].kind \in {"Call", "Program"}
                                THEN log[i].val.Value ELSE log[i].val
    /\ root = NestedReturnInCall =>
          /\ \E i \in 1..Len(log) :
                /\ log[i].kind = "Call" /\ log[i].site = "ret"
                /\ log[i].val.type = "INTEGER" /\ IntegerOf(log[i].val, ints) = 10
          /\ "z" \in DOMAIN envs[1].store
          /\ envs[1].store["z"].type = "INTEGER"
          /\ IntegerOf(envs[1].store["z"], ints) = 3
    /\ root = NestedReturnAtTop =>
          /\ evaluated.type = "INTEGER" /\ IntegerOf(evaluated, ints) = 10
          /\ \A i \in 1..Len(log) : log[i].kind # "Let"

\* C9: a ReturnValue is never visible: no environment binds one, no infix
\* or prefix operand and no call argument is one (no Error message names the
\* RETURN_VALUE type), and neither a call nor Eval of a Program returns one.
C9_ReturnValueNeverVisible ==
    /\ \A e \in 1..Len(envs) : \A n \in DOMAIN envs[e].store :
          envs[e].store[n].type # "RETURN_VALUE"
    /\ \A i \in 1..Len(log) :
          /\ log[i].site \in {"left", "right", "arg"} => log[i].val.type # "RETURN_VALUE"
          /\ (log[i].site = "ret" /\ log[i].kind \in {"Call", "Program"}) =>
                log[i].val.type # "RETURN_VALUE"
          /\ isError(log[i].val) =>
                \A k \in 1..Len(log[i].val.Message) : log[i].val.Message[k] # "RETURN_VALUE"
    /\ evaluated.type # "RETURN_VALUE"

\* the Let frames of a record: each starts with its "enter" event
LetFrames(l) == {l[i].frame : i \in {k \in 1..Len(l) : l[k].kind = "Let"}}

\* what frame f of record l obtained and returned, in order
EventsIn(l, f) == SelectSeq(l, LAMBDA ev : ev.frame = f)

\* what a program sees of an object: an Integer is the number it holds
RECURSIVE Observed(_, _)
Observed(obj, heap) ==
    IF obj.type = "INTEGER" THEN [type |-> "INTEGER", IntValue |-> heap[obj.addr]]
    ELSE IF obj.type = "RETURN_VALUE"
    THEN [type |-> "RETURN_VALUE", Value |-> Observed(obj.Value, heap)]
    ELSE obj

ObservedStore(ev, o) ==
    [n \in DOMAIN ev.envs[o].store |-> Observed(ev.envs[o].store[n], ev.ints)]

RECURSIVE Outers(_, _)
Outers(heap, e) ==
    IF heap[e].outer = 0 THEN {} ELSE {heap[e].outer} \cup Outers(heap, heap[e].outer)

\* A let statement that ran to its end, from its events: when it started,
\* when its value was evaluated, when it returned.
LetBinds(evs) ==
    IF isError(evs[2].val)
    THEN evs[3].val = evs[2].val /\ evs[3].envs = evs[2].envs
    ELSE /\ Get(evs[3].envs, evs[1].env, evs[1].node.Name.Value)
               = [obj |-> evs[2].val, ok |-> TRUE]
         /\ DOMAIN evs[3].envs[evs[1].env].store
               = DOMAIN evs[2].envs[evs[1].env].store \cup {evs[1].node.Name.Value}
         /\ \A n \in DOMAIN evs[2].envs[evs[1].env].store \ {evs[1].node.Name.Value} :
               ObservedStore(evs[3], evs[1].env)[n] = ObservedStore(evs[2], evs[1].env)[n]
         /\ \A o \in Outers(evs[1].envs, evs[1].env) :
               ObservedStore(evs[3], o) = ObservedStore(evs[1], o)

LookupX == Program(<<ES(Ident("x"))>>)

\* C10: evaluating a let statement whose value evaluates without error
\* binds the name in the current environment only: a lookup from there
\* yields the value (also in a later Eval call on the same environment), a
\* binding of the same name there is overwritten, and the stores of the
\* enclosing environments are as they were before the statement; a value
\* that is an Error binds nothing.
C10_LetBindsInCurrentEnvironment ==
    [][/\ \A f \in LetFrames(log') :
            Len(EventsIn(log', f)) = 3 => LetBinds(EventsIn(log', f))
       /\ (/\ root' = LookupX
           /\ "x" \in DOMAIN envs[1].store
           /\ envs[1].store["x"].type # "RETURN_VALUE") =>
            Observed(evaluated', ints') = Observed(envs[1].store["x"], ints)]_vars

\* the environments from e outwards, innermost first
RECURSIVE Chain(_, _)
Chain(heap, e) ==
    IF heap[e].outer = 0 THEN <<e>> ELSE <<e>> \o Chain(heap, heap[e].outer)

\* the places of the chain whose environment binds the name
Binders(heap, e, name) ==
    {k \in 1..Len(Chain(heap, e)) : name \in DOMAIN heap[Chain(heap, e)[k]].store}

Innermost(heap, e, name) ==
    Chain(heap, e)[CHOOSE k \in Binders(heap, e, name) :
                       \A j \in Binders(heap, e, name) : k <= j]

\* C11: evaluating an Identifier returns the value bound to the name in the
\* innermost environment of the chain that binds it, and the Error
\* "identifier not found: <name>" exactly when no environment of the chain
\* binds it.
C11_IdentifierIsInnermostBinding ==
    \A i \in 1..Len(log) :
        log[i].kind = "Identifier" =>
            /\ log[i].site = "ret"
            /\ IF Binders(log[i].envs, log[i].env, log[i].node.Value) = {}
               THEN log[i].val = Error(<<"identifier not found: ", log[i].node.Value>>)
               ELSE /\ log[i].val =
                      log[i].envs[Innermost(log[i].envs, log[i].env, log[i].node.Value)]
                          .store[log[i].node.Value]
                    /\ ~isError(log[i].val)

\* an identifier read in a call's environment whose name the global
\* environment binds too, to something else
C11_Witness ==
    \E i \in 1..Len(log) :
        /\ log[i].kind = "Identifier"
        /\ log[i].env # 1
        /\ Cardinality(Binders(log[i].envs, log[i].env, log[i].node.Value)) = 2
        /\ log[i].envs[1].store[log[i].node.Value] # log[i].val
        /\ log[i].val = log[i].envs[log[i].env].store[log[i].node.Value]

\* the calls that reached their body: the places of their "body" events
BodyEvents == {i \in 1..Len(log) : log[i].kind = "Call" /\ log[i].site = "body"}

\* the function a call called: what its "fn" event obtained
CalleeOf(f) == EventsOf(f)[1].val

\* C12: scoping is lexical.  A function literal captures the environment it
\* is evaluated in; a call evaluates the body in a fresh environment whose
\* outer link is the captured one, and its arguments in the caller's.  A
\* function returned from a call still reads that call's bindings, and a
\* free name of a body never resolves to a binding only the caller has.
C12_LexicalScoping ==
    /\ \A i \in 1..Len(log) :
          log[i].kind = "FunctionLiteral" =>
              log[i].val = Function(log[i].node.Parameters, log[i].node.Body, log[i].env)
    /\ \A i \in BodyEvents :
          /\ log[i - 1].kind = "Block" /\ log[i - 1].site = "ret"
          /\ log[i - 1].node = CalleeOf(log[i].frame).Body
          /\ log[i - 1].env > Len(EventsOf(log[i].frame)[1].envs)
          /\ log[i - 1].envs[log[i - 1].env].outer = CalleeOf(log[i].frame).Env
    /\ \A i \in 2..Len(log) :
          (/\ log[i].kind = "Call" /\ log[i].site = "arg"
           /\ log[i - 1].site = "ret"
           /\ log[i - 1].node = log[i].node.Arguments[log[i].idx])
          => log[i - 1].env = log[i].env
    /\ root = ClosureExample =>
          evaluated.type = "INTEGER" /\ IntegerOf(evaluated, ints) = 6
    /\ root = FreeNameInCaller => evaluated = Error(<<"identifier not found: ", "q">>)
    /\ root = ArgumentInCaller =>
          evaluated.type = "INTEGER" /\ IntegerOf(evaluated, ints) = 1

\* a call made from inside another call, of a function that captured the
\* global environment: its body's environment encloses the global one, not
\* the caller's
C12_Witness ==
    \E i \in BodyEvents :
        /\ EventsOf(log[i].frame)[1].env # 1
        /\ CalleeOf(log[i].frame).Env = 1
        /\ log[i - 1].envs[log[i - 1].env].outer = 1

\* what a program sees of the result of an event
Seen(ev) == Observed(ev.val, ev.ints)

IntOps == {"+", "-", "*", "/", "<", ">", "==", "!="}

\* the arithmetic or comparison result of two numbers (divisor not 0)
Arith(a, op, b) ==
    CASE op = "+" -> [type |-> "INTEGER", IntValue |-> a + b]
      [] op = "-" -> [type |-> "INTEGER", IntValue |-> a - b]
      [] op = "*" -> [type |-> "INTEGER", IntValue |-> a * b]
      [] op = "/" -> [type |-> "INTEGER", IntValue |-> Quot(a, b)]
      [] op = "<" -> [type |-> "BOOLEAN", b |-> a < b]
      [] op = ">" -> [type |-> "BOOLEAN", b |-> a > b]
      [] op = "==" -> [type |-> "BOOLEAN", b |-> a = b]
      [] op = "!=" -> [type |-> "BOOLEAN", b |-> a # b]

\* what the infix expression op must yield for operands seen as l and r
InfixYields(l, op, r, res) ==
    IF l.type = "INTEGER" /\ r.type = "INTEGER" /\ op \in IntOps
    THEN IF op = "/" /\ r.IntValue = 0 THEN res.type \in {"INTEGER", "ERROR"}
         ELSE res = Arith(l.IntValue, op, r.IntValue)
    ELSE IF l.type = "BOOLEAN" /\ r.type = "BOOLEAN" /\ op \in {"==", "!="}
    THEN res = [type |-> "BOOLEAN", b |-> IF op = "==" THEN l.b = r.b ELSE l.b # r.b]
    ELSE IF l.type # r.type
    THEN res = Error(<<"type mismatch: ", Type(l), " ", op, " ", Type(r)>>)
    ELSE res.type = "ERROR" /\ res.Message[1] = "unknown operator: "

\* the infix expressions whose two operands were evaluated, without error
InfixFrames ==
    {f \in FrameIds : /\ EventsOf(f)[1].kind = "Infix"
                      /\ Len(EventsOf(f)) >= 2
                      /\ EventsOf(f)[2].site = "right"
                      /\ ~isError(EventsOf(f)[1].val)
                      /\ ~isError(EventsOf(f)[2].val)}

\* C13: an infix expression whose operands evaluate without error yields:
\* for two Integers and an operator of + - * / < > == !=, the arithmetic or
\* comparison result; for two Booleans and == or !=, a Boolean; for
\* operands of different types, the Error "type mismatch: <ltype> <op>
\* <rtype>"; for anything else an unknown-operator Error.
C13_InfixResults ==
    \A f \in InfixFrames :
        /\ Len(EventsOf(f)) = 3
        /\ EventsOf(f)[3].site = "ret"
        /\ InfixYields(Seen(EventsOf(f)[1]), EventsOf(f)[1].node.Operator,
                       Seen(EventsOf(f)[2]), Seen(EventsOf(f)[3]))

-----------------------------------------------------------------------------
(* More claims about the parser.                                           *)

\* the parse ended with no error and one expression statement, of tree t
ParsedAs(t) == errors = <<>> /\ statements = <<ExpressionStatement(t)>>

\* C14: the parser gives an expression of identifiers, literals, binary and
\* unary operators and parentheses the tree in which operators bind by
\* EQUALS < LESSGREATER < SUM < PRODUCT < PREFIX and equal precedences
\* associate to the left, with no parse error: the text of a tree that has
\* parentheses only where the tree departs from that, and the fully
\* parenthesised text, both parse to the tree.  "a + b * c + d / e - f"
\* prints as "(((a + (b * c)) + (d / e)) - f)" and "-a * b" as "((-a) * b)".
C14_PrecedenceAndAssociation ==
    ppc = "done" =>
        /\ \A t \in Trees : input \in {Source(t), String(t)} => ParsedAs(t)
        /\ input = SumOfProducts =>
              /\ errors = <<>> /\ Len(statements) = 1
              /\ String(statements[1].Expression) =
                    <<T_LPAREN, T_LPAREN, T_LPAREN, T_IDENT("a"), T_PLUS, T_LPAREN,
                      T_IDENT("b"), T_ASTERISK, T_IDENT("c"), T_RPAREN, T_RPAREN, T_PLUS,
                      T_LPAREN, T_IDENT("d"), T_SLASH, T_IDENT("e"), T_RPAREN, T_RPAREN,
                      T_MINUS, T_IDENT("f"), T_RPAREN>>
        /\ input = NegatedFactor =>
              /\ errors = <<>> /\ Len(statements) = 1
              /\ String(statements[1].Expression) =
                    <<T_LPAREN, T_LPAREN, T_MINUS, T_IDENT("a"), T_RPAREN, T_ASTERISK,
                      T_IDENT("b"), T_RPAREN>>

\* a - a - a / a was parsed: a subtraction of a - a and a / a
C14_Witness ==
    /\ ppc = "done"
    /\ input = <<T_IDENT("a"), T_MINUS, T_IDENT("a"), T_MINUS, T_IDENT("a"), T_SLASH,
                 T_IDENT("a")>>
    /\ statements = <<ExpressionStatement(
                         InfixExpression(InfixExpression(Ident("a"), "-", Ident("a")), "-",
                                         InfixExpression(Ident("a"), "/", Ident("a"))))>>

IsPrefixOf(a, b) == Len(a) <= Len(b) /\ \A i \in 1..Len(a) : a[i] = b[i]

\* the statement the parser makes of the tokens of one statement alone
Alone(toks) == parseStatement(New(toks)).node

\* C15: the parser does not stop at the first parse error.  A statement
\* that fails to parse appends a message (for a token with no prefix
\* handler, one that starts "no prefix parse function for <kind>"), the
\* earlier messages are kept in order, and a well-formed statement later in
\* the token stream is still parsed and is in the Program returned.
C15_ParsingGoesOnAfterAnError ==
    [][/\ IsPrefixOf(errors, errors')
       /\ \A i \in 1..Len(errors') :
             errors'[i][1] = "no prefix parse function for " => Len(errors'[i]) >= 2
       /\ \A bad \in BadStatements : \A good \in GoodStatements :
             input' = bad \o good =>
                 /\ ppc' # "spin"
                 /\ ppc' = "done" =>
                       /\ errors' # <<>>
                       /\ statements' # <<>>
                       /\ statements'[Len(statements')] = Alone(good)]_vars

\* C17: for an input that parses without errors, the parse of the printed
\* program reports no error and its program prints as the same text.
C17_RoundTrip ==
    pass = 2 =>
        /\ ppc # "spin"
        /\ ppc = "done" => errors = <<>> /\ ProgramString(statements) = input

\* C18: a function literal is accepted without a parse error only in the
\* form fn ( names separated by commas ) { body }: then Parameters are
\* those names in order (none for "fn()"), each from an IDENT token; a
\* token that is not a name in a parameter position, or a token other than
\* "{" after the ")", adds a parse error.
C18_FunctionLiteralForm ==
    (ppc = "done" /\ pass = 1) =>
        \A n \in 0..2 : \A params \in [1..n -> {T_IDENT("x"), T_IDENT("y"), T_INT("5")}] :
            \A open \in {T_LBRACE, T_IDENT("x")} :
                input = FunctionText(params, open) =>
                    LET names == \A i \in 1..n : params[i].Type = "IDENT"
                    IN  /\ errors = <<>> <=> (names /\ open = T_LBRACE)
                        /\ errors = <<>> =>
                              statements =
                                  <<ExpressionStatement(
                                      FunctionLiteral([i \in 1..n |-> Ident(params[i].Literal)],
                                                      BlockStatement(<<>>)))>>

-----------------------------------------------------------------------------
(* More claims about the evaluator.                                        *)

Falsy(v) == v = NULL \/ v = FALSE_OBJ

\* the block an if-expression evaluated was evaluated just before the
\* if-expression obtained its value
BranchTaken(i, block) ==
    /\ log[i - 1].kind = "Block" /\ log[i - 1].site = "ret"
    /\ log[i - 1].node = block
    /\ log[i - 1].val = log[i].val

\* C16: truthiness is one rule.  An if-expression takes the consequence
\* exactly when its condition is neither Null nor false (0 is truthy), the
\* alternative otherwise, and yields Null when the condition is falsy and
\* there is no alternative; "!v" yields true exactly when v is falsy, and
\* false otherwise.
C16_Truthiness ==
    /\ \A i \in 1..Len(log) :
          (log[i].kind = "If" /\ log[i].site = "cond" /\ i < Len(log)) =>
              LET ie == log[i].node
                  next == CHOOSE j \in (i + 1)..Len(log) :
                              /\ log[j].frame = log[i].frame
                              /\ \A k \in (i + 1)..(j - 1) : log[k].frame # log[i].frame
              IN  (\E j \in (i + 1)..Len(log) : log[j].frame = log[i].frame) =>
                    IF ~Falsy(log[i].val)
                    THEN log[next].site = "consequence"
                         /\ BranchTaken(next, ie.Consequence)
                    ELSE IF ie.Alternative # NilNode
                    THEN log[next].site = "alternative"
                         /\ BranchTaken(next, ie.Alternative)
                    ELSE next = i + 1 /\ log[next].site = "ret" /\ log[next].val = NULL
    /\ \A f \in FrameIds :
          (/\ EventsOf(f)[1].kind = "Prefix"
           /\ EventsOf(f)[1].node.Operator = "!"
           /\ ~isError(EventsOf(f)[1].val))
          => /\ Len(EventsOf(f)) = 2
             /\ EventsOf(f)[2].val = nativeBoolToBooleanObject(Falsy(EventsOf(f)[1].val))

\* the table was evaluated: an if on Integer 0 took its consequence, an if
\* on Null its alternative, and "!" of Null gave true
C16_Witness ==
    /\ root = TruthTable
    /\ \E i \in 1..Len(log) :
          /\ log[i].kind = "If" /\ log[i].site = "cond"
          /\ log[i].val.type = "INTEGER" /\ IntegerOf(log[i].val, log[i].ints) = 0
          /\ log[i + 3].frame = log[i].frame /\ log[i + 3].site = "consequence"
    /\ \E i \in 1..Len(log) :
          /\ log[i].kind = "If" /\ log[i].site = "cond" /\ log[i].val = NULL
          /\ log[i + 3].frame = log[i].frame /\ log[i + 3].site = "alternative"
    /\ \E f \in FrameIds :
          /\ EventsOf(f)[1].kind = "Prefix" /\ EventsOf(f)[1].val = NULL
          /\ EventsOf(f)[2].val = TRUE_OBJ
    /\ evaluated = FALSE_OBJ

\* C19: Eval of an expression gives an Object, never nil, also for an if
\* whose block is empty and for a call of a function whose body is empty,
\* and no evaluation ends in the fault of a method call on nil.
C19_EvalYieldsAnObject ==
    /\ evaluated # Panic("nil dereference")
    /\ \A i \in 1..Len(log) :
          (/\ log[i].site = "ret"
           /\ log[i].kind \in {"Identifier", "FunctionLiteral", "Prefix", "Infix", "If", "Call"})
              => log[i].val # NilObj

=============================================================================
